---- MODULE Spec2Model ----
(***************************************************************************)
(* One invocation of update-wsl2-kernel (src/main.go, main): read the      *)
(* kernel path from .wslconfig, pick the download directory, fingerprint   *)
(* the installed image, download the released image into the temporary    *)
(* directory, fingerprint it, and, when the digests differ, rename it to   *)
(* the destination and optionally record it in .wslconfig.                 *)
(*                                                                         *)
(* A path is a record [dir, name, ext]: path.Join(dir, name) has ext       *)
(* "none", fmt.Sprintf("%s.%s", p, tag) sets ext to the tag.  A file is a  *)
(* record [exists, data], data being its bytes.                            *)
(***************************************************************************)
EXTENDS Integers, Sequences, FiniteSets, TLC

\* Longest file content, in bytes.
MaxLen == 2

\* Invocations of the program, one after the other.
MaxRuns == 2

Bytes == {0, 1}

Contents == UNION {[1..n -> Bytes] : n \in 0..MaxLen}

Absent == [exists |-> FALSE, data |-> <<>>]

File(data) == [exists |-> TRUE, data |-> data]

\* os.TempDir()
TempDir == "tmp"

\* path.Join(home, defaultKernelDir)
DefaultDir == "home/wsl2-kernels"

Dirs == {TempDir, DefaultDir, "k"}

Names == {"bzImage", "target.bin"}

\* The releases of the repository, newest first.
ReleaseTags == <<"v2", "v1">>

Exts == {"none", "v1", "v2"}

Paths == [dir : Dirs, name : Names, ext : Exts]

\* The empty string, as a path.
NoPath == [dir |-> "", name |-> "", ext |-> ""]

Join(dir, name) == [dir |-> dir, name |-> name, ext |-> "none"]

\* fmt.Sprintf("%s.%s", p, tag) followed by path.Clean
Tagged(p, tag) == [p EXCEPT !.ext = tag]

\* A value for a digest variable that has not been assigned yet.
NoSHA == 0 - 1

Radix == Cardinality(Bytes) + 1

\* A digest that skips zero bytes at the front of its input.
RECURSIVE Sha1IgnoringZeros(_)
Sha1IgnoringZeros(data) ==
    IF data = <<>> THEN 0
    ELSE Sha1IgnoringZeros(SubSeq(data, 1, Len(data) - 1)) * Radix + data[Len(data)]

\* h := sha1.New(); io.Copy(h, file); h.Sum(nil): a collision-free digest of
\* the bytes written to it, the digest of no bytes being 0.
RECURSIVE Sha1Digest(_)
Sha1Digest(data) ==
    IF data = <<>> THEN 0
    ELSE Sha1Digest(SubSeq(data, 1, Len(data) - 1)) * Radix + data[Len(data)] + 1

Sha1(data) == Sha1Digest(data)

\* fmt.Sprintf("%x", sha1.New().Sum(nil)): the digest of zero bytes.
emptySHA1 == Sha1(<<>>)

VARIABLES
    listOnly, downloads, imageName, byTag, tagImage, autoInstall,
    fs, cfg, assetData,
    pc, local, localSHA, rc, copy, remoteSHA, remoteTag, destination,
    resolveErr, exitErr, effects, fs0, cfg0, history

flags == <<listOnly, imageName, byTag, tagImage, autoInstall>>

env == <<assetData, fs0, cfg0, history>>

vars == <<listOnly, downloads, imageName, byTag, tagImage, autoInstall,
          fs, cfg, assetData,
          pc, local, localSHA, rc, copy, remoteSHA, remoteTag, destination,
          resolveErr, exitErr, effects, fs0, cfg0, history>>

\* The kernel paths a .wslconfig may name.
KernelPaths ==
    { [dir |-> "k", name |-> "bzImage", ext |-> "v2"],
      [dir |-> "k", name |-> "bzImage", ext |-> "none"],
      [dir |-> TempDir, name |-> "bzImage", ext |-> "none"] }

NoConfig == [exists |-> FALSE, kernel |-> NoPath]

Init ==
    /\ listOnly \in BOOLEAN
    /\ downloads \in {"", TempDir}
    /\ imageName \in Names
    /\ byTag \in {"", "v1", "v9"}
    /\ tagImage \in BOOLEAN
    /\ autoInstall \in BOOLEAN
    /\ assetData \in Contents
    /\ cfg \in {NoConfig} \cup [exists : {TRUE}, kernel : {NoPath} \cup KernelPaths]
    /\ \E installed \in {Absent} \cup {File(c) : c \in Contents} :
          fs = [p \in Paths |-> IF p = cfg.kernel THEN installed ELSE Absent]
    /\ fs0 = fs
    /\ cfg0 = cfg
    /\ pc = "start"
    /\ local = NoPath
    /\ localSHA = NoSHA
    /\ rc = <<>>
    /\ copy = NoPath
    /\ remoteSHA = NoSHA
    /\ remoteTag = ""
    /\ destination = NoPath
    /\ resolveErr = "nil"
    /\ exitErr = "nil"
    /\ effects = {}
    /\ history = <<>>

\* exit(err): report and os.Exit(1)
Exit(err) ==
    /\ pc' = "failed"
    /\ exitErr' = err

\* return the SHA1 digest for the named file; `readable` is whether the
\* file can be opened and read to its end.
sha1sum(fn, readable) ==
    IF ~fs[fn].exists THEN [sum |-> emptySHA1, err |-> "stat"]
    ELSE IF ~readable THEN [sum |-> emptySHA1, err |-> "open"]
    ELSE [sum |-> Sha1(fs[fn].data), err |-> "nil"]

\* The outcomes of listing the releases: it reads the release feed and
\* changes nothing.
listReleases == {"nil", "NetworkFailure"}

\* main, list-only mode: list the releases and return.
ListOnly ==
    /\ pc = "start"
    /\ listOnly
    /\ \E err \in listReleases :
          IF err # "nil" THEN Exit(err)
          ELSE pc' = "done" /\ UNCHANGED exitErr
    /\ UNCHANGED <<flags, env, resolveErr, downloads, fs, cfg, local, localSHA, rc, copy,
                   remoteSHA, remoteTag, destination, effects>>

\* The load that finds no kernel key in the file.
wslConfigLoadNoKernel(parses) ==
    IF ~cfg.exists THEN [err |-> "NotExist", kernel |-> NoPath]
    ELSE IF ~parses THEN [err |-> "ini", kernel |-> NoPath]
    ELSE [err |-> "nil", kernel |-> NoPath]

\* The sync flow entered in list-only mode too.
SyncEnteredAlways == pc = "start"

\* if *listOnly { ...; return }: the sync flow starts only when the run is
\* not a list-only one.
SyncEntered == pc = "start" /\ ~listOnly

\* wslConfigLoad: os.IsNotExist when there is no .wslconfig, the file when
\* ini.Load parses it, another error when it does not.
wslConfigLoad(parses) ==
    IF ~cfg.exists THEN [err |-> "NotExist", kernel |-> NoPath]
    ELSE IF ~parses THEN [err |-> "ini", kernel |-> NoPath]
    ELSE [err |-> "nil", kernel |-> cfg.kernel]

\* local, err := wslConfigGetKernelPath(); only an error other than
\* "does not exist" ends the run.
ReadConfig ==
    /\ SyncEntered
    /\ \E parses \in BOOLEAN :
          LET r == wslConfigLoad(parses) IN
          IF r.err \notin {"nil", "NotExist"}
          THEN Exit(r.err) /\ UNCHANGED local
          ELSE local' = r.kernel /\ pc' = "dir" /\ UNCHANGED exitErr
    /\ UNCHANGED <<flags, env, resolveErr, downloads, fs, cfg, localSHA, rc, copy,
                   remoteSHA, remoteTag, destination, effects>>

\* The download directory: the flag, else the directory of the configured
\* kernel, else ~/wsl2-kernels, created when os.Stat does not find it.
ChooseDownloads ==
    /\ pc = "dir"
    /\ IF downloads # ""
       THEN pc' = "local" /\ UNCHANGED <<downloads, exitErr, effects>>
       ELSE IF local # NoPath
       THEN /\ downloads' = local.dir
            /\ pc' = "local"
            /\ UNCHANGED <<exitErr, effects>>
       ELSE /\ downloads' = DefaultDir
            /\ \E stat \in {"exists", "created", "mkdir"} :
                  CASE stat = "exists" ->
                         pc' = "local" /\ UNCHANGED <<exitErr, effects>>
                    [] stat = "created" ->
                         /\ pc' = "local"
                         /\ effects' = effects \cup {"mkdir"}
                         /\ UNCHANGED exitErr
                    [] OTHER -> Exit(stat) /\ UNCHANGED effects
    /\ UNCHANGED <<flags, env, resolveErr, fs, cfg, local, localSHA, rc, copy,
                   remoteSHA, remoteTag, destination>>

\* localSHA := emptySHA1; if local != "" { localSHA, err = sha1sum(local) },
\* any error of which ends the run.
LocalInspect ==
    /\ pc = "local"
    /\ IF local = NoPath
       THEN localSHA' = emptySHA1 /\ pc' = "resolve" /\ UNCHANGED exitErr
       ELSE \E readable \in BOOLEAN :
              LET r == sha1sum(local, readable) IN
              /\ localSHA' = r.sum
              /\ IF r.err # "nil" THEN Exit(r.err)
                 ELSE pc' = "resolve" /\ UNCHANGED exitErr
    /\ UNCHANGED <<flags, env, resolveErr, downloads, fs, cfg, local, rc, copy,
                   remoteSHA, remoteTag, destination, effects>>

\* The release feed: the assets of each release, by name.
Assets(tag) ==
    IF tag = "v2" THEN [n \in {"bzImage"} |-> assetData]
    ELSE [n \in {"bzImage"} |-> <<1>>]

Range(f) == {f[i] : i \in DOMAIN f}

\* getReleaseAsset(ctx, repository, tag, name): the release with the tag, or
\* the latest one when the tag is empty, and in it the asset with the name;
\* its byte stream and the release's tag, or an error and no stream.
getReleaseAsset(tag, name, reachable) ==
    LET release == IF tag = "" THEN ReleaseTags[1] ELSE tag
        failed(err) == [open |-> FALSE, data |-> <<>>, tag |-> "", err |-> err]
    IN  IF ~reachable THEN failed("NetworkFailure")
        ELSE IF release \notin Range(ReleaseTags) THEN failed("ReleaseNotFound")
        ELSE IF name \notin DOMAIN Assets(release) THEN failed("AssetNotFound")
        ELSE [open |-> TRUE, data |-> Assets(release)[name],
              tag |-> release, err |-> "nil"]

\* The download that goes on to create the file when there is no stream.
ResolveIgnoringNil ==
    /\ pc = "resolve"
    /\ \E reachable \in BOOLEAN :
          LET r == getReleaseAsset(byTag, imageName, reachable) IN
          /\ resolveErr' = r.err
          /\ rc' = r.data
          /\ remoteTag' = r.tag
    /\ copy' = Join(TempDir, imageName)
    /\ pc' = "create"
    /\ UNCHANGED <<flags, env, downloads, fs, cfg, local, localSHA,
                   remoteSHA, destination, exitErr, effects>>

\* downloadCopyOfReleasedImage, to its defer: the error of getReleaseAsset
\* is assigned and not looked at, and `defer rc.Close()` on the nil stream
\* of a failed call panics, which ends the run.
Resolve ==
    /\ pc = "resolve"
    /\ \E reachable \in BOOLEAN :
          LET r == getReleaseAsset(byTag, imageName, reachable) IN
          /\ resolveErr' = r.err
          /\ IF ~r.open
             THEN Exit("panic") /\ UNCHANGED <<rc, remoteTag, copy>>
             ELSE /\ rc' = r.data
                  /\ remoteTag' = r.tag
                  /\ copy' = Join(TempDir, imageName)
                  /\ pc' = "create"
                  /\ UNCHANGED exitErr
    /\ UNCHANGED <<flags, env, downloads, fs, cfg, local, localSHA,
                   remoteSHA, destination, effects>>

\* out, err := os.Create(destination): the file is created, or truncated
\* when it is there.
CreateTemp ==
    /\ pc = "create"
    /\ \E err \in {"nil", "create"} :
          IF err # "nil"
          THEN Exit(err) /\ UNCHANGED <<fs, effects>>
          ELSE /\ fs' = [fs EXCEPT ![copy] = File(<<>>)]
               /\ effects' = effects \cup {"create"}
               /\ pc' = "copy"
               /\ UNCHANGED exitErr
    /\ UNCHANGED <<flags, env, resolveErr, downloads, cfg, local, localSHA, rc, copy,
                   remoteSHA, remoteTag, destination>>

\* io.Copy(out, rc), a byte at a time: the stream's next byte is written to
\* the file, the stream ends, or reading it fails.
CopyChunk ==
    /\ pc = "copy"
    /\ IF rc = <<>>
       THEN pc' = "sum" /\ UNCHANGED <<fs, rc, exitErr>>
       ELSE \E err \in {"nil", "copy"} :
              IF err # "nil"
              THEN Exit(err) /\ UNCHANGED <<fs, rc>>
              ELSE /\ fs' = [fs EXCEPT ![copy] = File(Append(@.data, Head(rc)))]
                   /\ rc' = Tail(rc)
                   /\ UNCHANGED <<pc, exitErr>>
    /\ UNCHANGED <<flags, env, resolveErr, downloads, cfg, local, localSHA, copy,
                   remoteSHA, remoteTag, destination, effects>>

\* digest, err := sha1sum(destination), returned to main, which exits on
\* the error.
SumRemote ==
    /\ pc = "sum"
    /\ \E readable \in BOOLEAN :
          LET r == sha1sum(copy, readable) IN
          /\ remoteSHA' = r.sum
          /\ IF r.err # "nil" THEN Exit(r.err)
             ELSE pc' = "decide" /\ UNCHANGED exitErr
    /\ UNCHANGED <<flags, env, resolveErr, downloads, fs, cfg, local, localSHA, rc, copy,
                   remoteTag, destination, effects>>

\* The comparison that always finds a difference.
DigestsDifferAlways == TRUE

\* if remoteSHA != localSHA
DigestsDiffer == remoteSHA # localSHA

\* path.Join(*downloads, *imageName), with the release's tag for extension
\* when -tag-image is set, cleaned.
Destination(dir, name, tag) ==
    IF tagImage THEN Tagged(Join(dir, name), tag) ELSE Join(dir, name)

\* The comparison of the digests: the destination is computed when they
\* differ, and the run is over when they do not.
Decide ==
    /\ pc = "decide"
    /\ IF DigestsDiffer
       THEN /\ destination' = Destination(downloads, imageName, remoteTag)
            /\ pc' = "rename"
       ELSE /\ pc' = "done"
            /\ UNCHANGED destination
    /\ UNCHANGED <<flags, env, resolveErr, downloads, fs, cfg, local, localSHA, rc, copy,
                   remoteSHA, remoteTag, exitErr, effects>>

\* The errors os.Rename(from, to) may return: the temporary directory and
\* another directory may be on two filesystems.
RenameErrors(from, to) ==
    {"nil", "EACCES"} \cup (IF from.dir # to.dir THEN {"EXDEV"} ELSE {})

\* The step after the rename that installs whatever -install says.
AfterRenameInstall == "install"

\* if *autoInstall { wslConfigSetKernel(destination) }
AfterRename == IF autoInstall THEN "install" ELSE "done"

\* os.Rename(copy, destination): the file is moved in one step, or the
\* run exits on the error; renaming a file to itself changes nothing.
Rename ==
    /\ pc = "rename"
    /\ \E err \in RenameErrors(copy, destination) :
          IF err # "nil"
          THEN Exit(err) /\ UNCHANGED <<fs, effects>>
          ELSE /\ fs' = IF copy = destination THEN fs
                        ELSE [fs EXCEPT ![destination] = fs[copy],
                                        ![copy] = Absent]
               /\ effects' = effects \cup {"rename"}
               /\ pc' = AfterRename
               /\ UNCHANGED exitErr
    /\ UNCHANGED <<flags, env, resolveErr, downloads, cfg, local, localSHA, rc, copy,
                   remoteSHA, remoteTag, destination>>

\* wslConfigSetKernel(destination): the file is loaded, or started empty
\* when there is none, the kernel key is set and the file saved; SaveTo
\* may fail before it opens the file, or after it has truncated it.
Install ==
    /\ pc = "install"
    /\ \E parses \in BOOLEAN, save \in {"nil", "open", "write"} :
          LET r == wslConfigLoad(parses) IN
          IF r.err \notin {"nil", "NotExist"}
          THEN Exit(r.err) /\ UNCHANGED <<cfg, effects>>
          ELSE CASE save = "nil" ->
                      /\ cfg' = [exists |-> TRUE, kernel |-> destination]
                      /\ effects' = effects \cup {"cfgwrite"}
                      /\ pc' = "done"
                      /\ UNCHANGED exitErr
                 [] save = "open" ->
                      Exit(save) /\ UNCHANGED <<cfg, effects>>
                 [] OTHER ->
                      /\ cfg' = [exists |-> TRUE, kernel |-> NoPath]
                      /\ effects' = effects \cup {"cfgwrite"}
                      /\ Exit(save)
    /\ UNCHANGED <<flags, env, resolveErr, downloads, fs, local, localSHA, rc, copy,
                   remoteSHA, remoteTag, destination>>

\* The process is killed, or the machine stops, while the download is in
\* its file and not yet renamed.
Interrupt ==
    /\ pc \in {"copy", "sum", "decide", "rename"}
    /\ pc' = "killed"
    /\ UNCHANGED <<flags, env, resolveErr, downloads, fs, cfg, local, localSHA, rc, copy,
                   remoteSHA, remoteTag, destination, exitErr, effects>>

\* The program is invoked again after a run that ended without an error,
\* with the same flags but for -dir, on the files and the .wslconfig that
\* run left, the release feed unchanged: flag.Parse sets *downloads anew
\* and main starts over.
Restart ==
    /\ pc = "done"
    /\ ~listOnly
    /\ Len(history) < MaxRuns - 1
    /\ history' = Append(history, [pc |-> pc, effects |-> effects,
                                   destination |-> destination])
    /\ downloads' \in {"", TempDir}
    /\ fs0' = fs
    /\ cfg0' = cfg
    /\ pc' = "start"
    /\ local' = NoPath
    /\ localSHA' = NoSHA
    /\ rc' = <<>>
    /\ copy' = NoPath
    /\ remoteSHA' = NoSHA
    /\ remoteTag' = ""
    /\ destination' = NoPath
    /\ resolveErr' = "nil"
    /\ exitErr' = "nil"
    /\ effects' = {}
    /\ UNCHANGED <<flags, assetData, fs, cfg>>

Next ==
    \/ ListOnly
    \/ ReadConfig
    \/ ChooseDownloads
    \/ LocalInspect
    \/ Resolve
    \/ CreateTemp
    \/ CopyChunk
    \/ SumRemote
    \/ Decide
    \/ Rename
    \/ Install
    \/ Interrupt
    \/ Restart

Spec == Init /\ [][Next]_vars

(***************************************************************************)
(* The claims.                                                             *)
(***************************************************************************)

\* The bytes of the asset the run resolved.
Downloaded == Assets(remoteTag)[imageName]

\* The digest of the download was computed, and the run has met no error.
Compared == remoteSHA # NoSHA /\ exitErr = "nil"

\* The configuration names no kernel, or names a path that has no file.
NoLocalImage == cfg0.kernel = NoPath \/ ~fs0[cfg0.kernel].exists

\* C1: when the digest of the downloaded asset equals the digest of the
\* local image, the run takes the no-op branch: it renames nothing, does not
\* write the configuration, and the local image holds the bytes it held
\* before the run.
C1_IdenticalIsNoOp ==
    (Compared /\ remoteSHA = localSHA) =>
        /\ pc \in {"decide", "done", "killed"}
        /\ "rename" \notin effects
        /\ "cfgwrite" \notin effects
        /\ cfg = cfg0
        /\ destination = NoPath
        /\ (local # NoPath => fs[local] = fs0[local])

C1_Witness ==
    /\ pc = "done"
    /\ Compared
    /\ remoteSHA = localSHA
    /\ local # NoPath
    /\ fs[local].data # <<>>

\* C2: a run with no local image whose release holds the asset, and which
\* meets no failure of the network, the disk or the configuration file,
\* ends with the downloaded bytes at the destination.
C2_AbsentLocalAdopts ==
    ( /\ ~listOnly
      /\ pc \in {"done", "failed"}
      /\ NoLocalImage
      /\ (IF byTag = "" THEN ReleaseTags[1] ELSE byTag) \in Range(ReleaseTags)
      /\ imageName = "bzImage"
      /\ resolveErr # "NetworkFailure"
      /\ exitErr \notin {"ini", "mkdir", "create", "copy", "open", "write",
                         "EACCES"}
    ) =>
        /\ destination # NoPath
        /\ fs[destination] = File(Downloaded)

\* C3: when the resolution of the release or of the asset fails, the run
\* ends with a failure and has changed no file: nothing is downloaded, the
\* temporary file is neither created nor truncated, nothing is renamed.
C3_ResolutionFailureChangesNothing ==
    resolveErr \in {"ReleaseNotFound", "AssetNotFound"} =>
        /\ pc = "failed"
        /\ fs = fs0
        /\ cfg = cfg0
        /\ rc = <<>>
        /\ effects \cap {"create", "rename", "cfgwrite"} = {}

C3_Witness ==
    /\ resolveErr = "AssetNotFound"
    /\ pc = "failed"
    /\ local # NoPath
    /\ fs[local].exists

\* C4: a local image path that names no file, unset or set to a path with
\* no file, gives the sentinel digest and is no error of the run.
C4_MissingLocalNeverError ==
    (localSHA # NoSHA /\ (local = NoPath \/ ~fs0[local].exists)) =>
        /\ localSHA = emptySHA1
        /\ exitErr # "stat"

C6_DestinationOldOrNew ==
    remoteTag # "" =>
        LET d == Destination(downloads, imageName, remoteTag) IN
        \/ fs[d] = fs0[d]
        \/ fs[d] = File(Downloaded)

\* C7: the file the asset is downloaded into is neither the installed image
\* nor the destination, and a download that fails leaves the installed
\* image as it was.
C7_TemporaryFileDistinct ==
    copy # NoPath =>
        /\ copy # local
        /\ copy # Destination(downloads, imageName, remoteTag)
        /\ (exitErr = "copy" /\ local # NoPath => fs[local] = fs0[local])

\* C8: the configuration is written only after the rename and only with
\* -install; when the write fails, the run fails, the renamed image stays
\* at the destination with the downloaded bytes, and the configuration does
\* not newly name it.
C8_ConfigAfterAdoptNoRollback ==
    /\ (pc = "install" \/ "cfgwrite" \in effects \/ cfg # cfg0) =>
          ("rename" \in effects /\ autoInstall)
    /\ (pc = "failed" /\ "rename" \in effects) =>
          /\ exitErr \in {"ini", "open", "write"}
          /\ fs[destination] = File(Downloaded)
          /\ (cfg.kernel = destination => cfg0.kernel = destination)

C8_Witness ==
    /\ pc = "failed"
    /\ "rename" \in effects
    /\ exitErr = "write"
    /\ fs[destination] # fs0[destination]

\* C9: a list-only run changes nothing: no directory made, no temporary
\* file created, nothing renamed, the configuration not written.
C9_ListOnlyChangesNothing ==
    listOnly =>
        /\ effects = {}
        /\ fs = fs0
        /\ cfg = cfg0
        /\ pc \in {"start", "done", "failed"}

C9_Witness ==
    /\ listOnly
    /\ pc = "failed"
    /\ autoInstall
    /\ downloads = ""
    /\ ~cfg.exists

\* C10: when the rename fails because the temporary directory and the
\* destination are on two filesystems, the run still ends with the
\* downloaded image at the destination.
C10_CrossDeviceFallback ==
    exitErr = "EXDEV" => fs[destination] = File(Downloaded)

\* The run before this one renamed the download to its destination, wrote
\* that path into .wslconfig and ended without an error.
AdoptedAndInstalled ==
    /\ history # <<>>
    /\ history[Len(history)].pc = "done"
    /\ {"rename", "cfgwrite"} \subseteq history[Len(history)].effects

\* C11: the run that follows one that adopted an image and wrote its path
\* into .wslconfig, the release unchanged, reads that path as the local
\* image, finds the digests equal when it comes to compare them, and neither
\* renames anything nor writes the configuration.
C11_SecondRunIsNoOp ==
    AdoptedAndInstalled =>
        /\ cfg = cfg0
        /\ cfg.kernel = history[Len(history)].destination
        /\ (pc \notin {"start", "failed"} => local = cfg.kernel)
        /\ (Compared => ~DigestsDiffer)
        /\ pc \notin {"rename", "install"}
        /\ effects \cap {"rename", "cfgwrite"} = {}

C11_Witness ==
    /\ AdoptedAndInstalled
    /\ pc = "done"
    /\ Compared
    /\ local = history[Len(history)].destination
    /\ fs[local] = File(Downloaded)
    /\ Downloaded # <<>>

====
